---- MODULE Spec2Model ----
(***************************************************************************)
(* Model of harmonized_landsat_sentinel.generate_HLS_timeseries and its    *)
(* helpers process_sensor_band and process_sensor_mosaic.                  *)
(*                                                                         *)
(* Python values are represented as follows:                               *)
(*   - a date string "YYYY-MM-DD" is a sequence of one-character strings   *)
(*   - a datetime.date is a record [year, month, day]                      *)
(*   - a file path is the sequence of its components                       *)
(*   - None, where a path or list is expected, is the empty sequence with  *)
(*     an explicit tag                                                     *)
(* The collaborators (catalog listing, granules, rasters, file system)     *)
(* are an environment: the catalog is fixed at construction, and the       *)
(* outcome of each collaborator call is chosen the first time the call is  *)
(* made and is the same on every later identical call.                     *)
(***************************************************************************)
EXTENDS Integers, Sequences, FiniteSets, TLC

VARIABLES params, catalog, env, pc, run, prev,
          start_date_UTC, end_date_UTC, bands, tiles, output_directory,
          tile_sensor_dates, all_dates, ti, queue, images,
          output_filenames, fs_dirs, fs_files, written, log

vars == <<params, catalog, env, pc, run, prev,
          start_date_UTC, end_date_UTC, bands, tiles, output_directory,
          tile_sensor_dates, all_dates, ti, queue, images,
          output_filenames, fs_dirs, fs_files, written, log>>

(***************************************************************************)
(* Bounds of the model.                                                    *)
(***************************************************************************)
MaxDay == 2        \* days of the month the catalog may hold granules for
MaxGranules == 2   \* granules in the catalog
MaxFaults == 1     \* collaborator calls that fail in one environment
MaxRuns == 2       \* invocations of the orchestrator with the same parameters

(***************************************************************************)
(* Program constants.                                                      *)
(***************************************************************************)
BANDS == <<"red", "green", "blue", "coastal_aerosol", "NIR", "rededge1",
           "rededge2", "rededge3", "NIR_broad", "SWIR1", "SWIR2",
           "water_vapor", "cirrus">>

valid_sources == {"HLS", "S30", "L30", "both"}

(***************************************************************************)
(* Environment: tiles, sensors, the bands each sensor carries, image       *)
(* geometry.                                                               *)
(***************************************************************************)
Tiles == {"T1", "T2"}
Sensors == {"S30", "L30"}
Days == 1..MaxDay

S30OnlyBands == {"rededge1", "rededge2", "rededge3", "NIR_broad", "water_vapor"}

BandOnSensor(band, sensor) == sensor = "S30" \/ band \notin S30OnlyBands

TileCRS(tile) == IF tile = "T1" THEN "EPSG:32610" ELSE "EPSG:32611"

Image(sensor, tile, d, band) ==
    [sensor |-> sensor, tile |-> tile, d |-> d, band |-> band,
     crs |-> TileCRS(tile), cell_size |-> 30]

NoGeometry == [kind |-> "None", crs |-> "", cell_size |-> 0]
ABBox == [kind |-> "BBox", crs |-> "EPSG:4326", cell_size |-> 0]
ARasterGeometry == [kind |-> "RasterGeometry", crs |-> "EPSG:32611", cell_size |-> 60]

TilesCovering(geometry) == <<"T1", "T2">>

OutputDirectory == <<"~", "out">>
DownloadDirectory == <<"~", "dl">>
HomeDirectory == <<"home", "user">>

(***************************************************************************)
(* Strings, dates and paths.                                               *)
(***************************************************************************)
DigitChar == <<"0", "1", "2", "3", "4", "5", "6", "7", "8", "9">>

Ord(c) == IF c = "-" THEN 45 ELSE 48 + (CHOOSE i \in 0..9 : DigitChar[i + 1] = c)

RECURSIVE StrLess(_, _)
StrLess(s, t) ==
    IF t = <<>> THEN FALSE
    ELSE IF s = <<>> THEN TRUE
    ELSE IF Ord(Head(s)) # Ord(Head(t)) THEN Ord(Head(s)) < Ord(Head(t))
    ELSE StrLess(Tail(s), Tail(t))

\* mutant: the dates are put in descending order
RECURSIVE sorted_descending(_)
sorted_descending(S) ==
    IF S = {} THEN <<>>
    ELSE LET m == CHOOSE x \in S : \A y \in S : y = x \/ StrLess(y, x)
         IN  <<m>> \o sorted_descending(S \ {m})

RECURSIVE sorted(_)
sorted(S) ==
    IF S = {} THEN <<>>
    ELSE LET m == CHOOSE x \in S : \A y \in S : y = x \/ StrLess(x, y)
         IN  <<m>> \o sorted(S \ {m})

RECURSIVE PadChars(_, _)
PadChars(n, w) ==
    IF w = 0 THEN <<>> ELSE PadChars(n \div 10, w - 1) \o <<DigitChar[(n % 10) + 1]>>

RECURSIVE Join(_)
Join(cs) == IF cs = <<>> THEN "" ELSE Head(cs) \o Join(Tail(cs))

RECURSIVE Num(_)
Num(cs) ==
    IF cs = <<>> THEN 0
    ELSE 10 * Num(SubSeq(cs, 1, Len(cs) - 1)) + (Ord(cs[Len(cs)]) - 48)

isoformat(dt) ==
    PadChars(dt.year, 4) \o <<"-">> \o PadChars(dt.month, 2) \o <<"-">> \o PadChars(dt.day, 2)

parse(s) ==
    [year |-> Num(SubSeq(s, 1, 4)), month |-> Num(SubSeq(s, 6, 7)), day |-> Num(SubSeq(s, 9, 10))]

strftime(dt) == Join(PadChars(dt.year, 4) \o PadChars(dt.month, 2) \o PadChars(dt.day, 2))

DateLeq(a, b) ==
    \/ a.year < b.year
    \/ a.year = b.year /\ a.month < b.month
    \/ a.year = b.year /\ a.month = b.month /\ a.day <= b.day

join(directory, name) == directory \o <<name>>

dirname(path) == SubSeq(path, 1, Len(path) - 1)

expanduser(path) ==
    IF path # <<>> /\ Head(path) = "~" THEN HomeDirectory \o Tail(path) ELSE path

Elems(s) == {s[i] : i \in 1..Len(s)}

IsIn(x, s) == \E i \in 1..Len(s) : s[i] = x

(***************************************************************************)
(* File system.                                                            *)
(***************************************************************************)
Prefixes(directory) == {SubSeq(directory, 1, n) : n \in 1..Len(directory)}

\* mutant: makedirs without exist_ok=True fails on a directory that exists
makedirs_no_exist_ok(dirs, directory) ==
    [raised |-> directory \in dirs, dirs |-> dirs \cup Prefixes(directory)]

makedirs(dirs, directory) == [raised |-> FALSE, dirs |-> dirs \cup Prefixes(directory)]

to_geotiff(files, path, content) ==
    {f \in files : f.path # path} \cup {[path |-> path, content |-> content]}

(***************************************************************************)
(* Catalog listing.                                                        *)
(***************************************************************************)
DayDate(day) == [year |-> 2022, month |-> 8, day |-> day]

Granules == Tiles \X Days \X Sensors

listing(cat, tile, start_UTC, end_UTC) ==
    {[date_UTC |-> isoformat(DayDate(day)),
      sentinel |-> <<tile, day, "S30">> \in cat,
      landsat |-> <<tile, day, "L30">> \in cat] :
        day \in {x \in Days : /\ DateLeq(start_UTC, DayDate(x))
                              /\ DateLeq(DayDate(x), end_UTC)
                              /\ \E s \in Sensors : <<tile, x, s>> \in cat}}

s30_dates(rows) == sorted({r.date_UTC : r \in {x \in rows : x.sentinel}})

l30_dates(rows) == sorted({r.date_UTC : r \in {x \in rows : x.landsat}})

tile_calendar(rows) ==
    IF Len(s30_dates(rows)) = 0 /\ Len(l30_dates(rows)) = 0
    THEN [S30 |-> <<>>, L30 |-> <<>>]
    ELSE [S30 |-> s30_dates(rows), L30 |-> l30_dates(rows)]

\* mutant: a tile without dates is skipped before its calendar is stored
store_calendar_skips_empty(tsd, tile, rows) ==
    IF Len(s30_dates(rows)) = 0 /\ Len(l30_dates(rows)) = 0
    THEN tsd
    ELSE [t \in (DOMAIN tsd) \cup {tile} |-> IF t = tile THEN tile_calendar(rows) ELSE tsd[t]]

\* tile_sensor_dates[tile] = {...}, lines 187 and 203
store_calendar(tsd, tile, rows) ==
    [t \in (DOMAIN tsd) \cup {tile} |-> IF t = tile THEN tile_calendar(rows) ELSE tsd[t]]

\* mutant: only the S30 dates are added to the date universe
update_all_dates_s30_only(dates, rows) ==
    IF Len(s30_dates(rows)) = 0 /\ Len(l30_dates(rows)) = 0
    THEN dates
    ELSE dates \cup Elems(s30_dates(rows))

update_all_dates(dates, rows) ==
    IF Len(s30_dates(rows)) = 0 /\ Len(l30_dates(rows)) = 0
    THEN dates
    ELSE dates \cup Elems(s30_dates(rows)) \cup Elems(l30_dates(rows))

\* the indexing loop as a function of the tile list, the catalog and the range
RECURSIVE index_dates(_, _, _, _, _)
index_dates(ts, cat, start_UTC, end_UTC, dates) ==
    IF ts = <<>> THEN dates
    ELSE index_dates(Tail(ts), cat, start_UTC, end_UTC,
                     update_all_dates(dates, listing(cat, Head(ts), start_UTC, end_UTC)))

date_universe(ts, cat, start_UTC, end_UTC) == sorted(index_dates(ts, cat, start_UTC, end_UTC, {}))

\* tile_sensor_dates.get(tile, {}).get(sensor, [])
available_dates(tsd, tile, sensor) ==
    IF tile \in DOMAIN tsd THEN tsd[tile][sensor] ELSE <<>>

(***************************************************************************)
(* Environment outcomes.                                                   *)
(***************************************************************************)
FaultOutcomes == {"raise", "resolve_err", "product_err", "write_err", "grid_err", "mosaic_err"}

Faults(e) == Cardinality({key \in DOMAIN e : e[key] \in FaultOutcomes})

\* the outcomes the environment may give to the call `key`, out of `possible`
Outcomes(e, key, possible) ==
    IF key \in DOMAIN e THEN {e[key]}
    ELSE {o \in possible : o \in FaultOutcomes => Faults(e) < MaxFaults}

Record(e, key, o) == IF key \in DOMAIN e THEN e ELSE e @@ (key :> o)

ListingKey(tile) == <<"listing", "-", tile, <<>>, "-">>

(***************************************************************************)
(* Parameters.                                                             *)
(***************************************************************************)
NoneArg == [kind |-> "none", v |-> <<>>]
StrArg(s) == [kind |-> "str", v |-> <<s>>]
ListArg(l) == [kind |-> "list", v |-> l]

DateStrArg(day) == [isstr |-> TRUE, s |-> isoformat(DayDate(day)), dt |-> DayDate(day)]
DateObjArg(day) == [isstr |-> FALSE, s |-> <<>>, dt |-> DayDate(day)]

SourceArgs == valid_sources \cup {"MODIS"}
CallShapes ==
    {<<NoneArg, NoGeometry>>, <<NoneArg, ARasterGeometry>>, <<StrArg("T1"), NoGeometry>>,
     <<ListArg(<<"T2", "T1">>), NoGeometry>>, <<ListArg(<<"T2", "T1">>), ABBox>>}
BandArgs == {NoneArg, StrArg("red"), ListArg(<<"rededge1", "red">>)}

\* output_directory and download_directory as the caller gives them
DirArg(path) == [kind |-> "str", v |-> path]
DirectoryShapes ==
    {<<DirArg(OutputDirectory), NoneArg>>, <<NoneArg, DirArg(DownloadDirectory)>>,
     <<NoneArg, NoneArg>>}

Catalogs == {c \in SUBSET Granules : Cardinality(c) <= MaxGranules}

\* the default band list has 13 bands: it is run on one tile, with an output
\* directory, and a catalog of at most MaxDefaultGranules granules
MaxDefaultGranules == 1

Bounded(p, cat) ==
    p.bands.kind = "none" =>
        /\ p.tiles = StrArg("T1")
        /\ p.geometry = NoGeometry
        /\ p.output_directory.kind # "none"
        /\ Cardinality(cat) <= MaxDefaultGranules

(***************************************************************************)
(* Init: the state when generate_HLS_timeseries is called.                 *)
(***************************************************************************)
Init ==
    /\ \E source \in SourceArgs, shape \in CallShapes, b \in BandArgs,
          dirs \in DirectoryShapes :
          \/ params = [source |-> source, tiles |-> shape[1], geometry |-> shape[2],
                       bands |-> b,
                       output_directory |-> dirs[1], download_directory |-> dirs[2],
                       start_date_UTC |-> DateStrArg(1),
                       end_date_UTC |-> DateObjArg(MaxDay)]
          \/ params = [source |-> source, tiles |-> shape[1], geometry |-> shape[2],
                       bands |-> b,
                       output_directory |-> dirs[1], download_directory |-> dirs[2],
                       start_date_UTC |-> DateStrArg(1),
                       end_date_UTC |-> DateObjArg(1)]
    /\ catalog \in Catalogs
    /\ Bounded(params, catalog)
    /\ env = <<>>
    /\ pc = "Validate"
    /\ run = 1
    /\ prev = [status |-> "none", output |-> <<>>, written |-> <<>>]
    /\ start_date_UTC = DayDate(1)
    /\ end_date_UTC = DayDate(1)
    /\ bands = <<>>
    /\ tiles = <<>>
    /\ output_directory = NoneArg
    /\ tile_sensor_dates = <<>>
    /\ all_dates = {}
    /\ ti = 1
    /\ queue = <<>>
    /\ images = <<>>
    /\ output_filenames = <<>>
    /\ fs_dirs = {}
    /\ fs_files = {}
    /\ written = <<>>
    /\ log = <<>>

(***************************************************************************)
(* Validate: lines 79-158.                                                 *)
(***************************************************************************)
\* mutant: the source mode is not validated
preflight_error_unchecked_source(p) ==
    p.tiles.kind = "none" /\ p.geometry.kind = "None"

\* lines 81 and 104
preflight_error(p) ==
    \/ p.source \notin valid_sources
    \/ (p.tiles.kind = "none" /\ p.geometry.kind = "None")

\* lines 153-155
resolve_output_directory(output_dir, download_dir) ==
    IF output_dir.kind = "none" THEN download_dir ELSE output_dir

Validate ==
    /\ pc = "Validate"
    /\ IF preflight_error(params)
       THEN /\ pc' = "Raised"
            /\ UNCHANGED <<start_date_UTC, end_date_UTC, bands, tiles, output_directory, log>>
       ELSE /\ pc' = "Index"
            /\ start_date_UTC' = IF params.start_date_UTC.isstr
                                 THEN parse(params.start_date_UTC.s)
                                 ELSE params.start_date_UTC.dt
            /\ end_date_UTC' = IF params.end_date_UTC.isstr
                               THEN parse(params.end_date_UTC.s)
                               ELSE params.end_date_UTC.dt
            /\ bands' = IF params.bands.kind = "none" THEN BANDS ELSE params.bands.v
            /\ tiles' = IF params.tiles.kind = "none"
                        THEN (IF params.geometry.kind # "None"
                              THEN TilesCovering(params.geometry) ELSE <<>>)
                        ELSE params.tiles.v
            /\ output_directory' = resolve_output_directory(params.output_directory,
                                                            params.download_directory)
            /\ log' = log
                      \o (IF params.tiles.kind = "none" /\ params.geometry.kind # "None"
                          THEN <<[op |-> "sentinel_tiles.tiles"]>> ELSE <<>>)
                      \o (IF params.download_directory.kind # "none"
                          THEN <<[op |-> "HLS2Connection",
                                  download_directory |-> params.download_directory.v]>>
                          ELSE <<>>)
    /\ UNCHANGED <<params, catalog, env, run, prev, tile_sensor_dates, all_dates,
                   ti, queue, images, output_filenames, fs_dirs, fs_files, written>>

(***************************************************************************)
(* The dispatch loops: lines 212-347.  The units of work are listed in the *)
(* order in which the nested loops reach them.                             *)
(***************************************************************************)
band_output_dir(band) == join(output_directory.v, band)

s30_output_dir(band) == join(join(output_directory.v, "S30"), band)

l30_output_dir(band) == join(join(output_directory.v, "L30"), band)

\* mutant: both sensors are given the S30 directory
sensor_output_dir_always_s30(sensor, band) == s30_output_dir(band)

sensor_output_dir(sensor, band) ==
    IF sensor = "S30" THEN s30_output_dir(band) ELSE l30_output_dir(band)

Unit(op, sensor, tile, d, band, dir) ==
    [op |-> op, sensor |-> sensor, tile |-> tile, d |-> d, band |-> band, dir |-> dir]

RECURSIVE hls_tile_units(_, _, _)
hls_tile_units(ts, d, band) ==
    IF ts = <<>> THEN <<>>
    ELSE (IF IsIn(d, available_dates(tile_sensor_dates, Head(ts), "S30")
                     \o available_dates(tile_sensor_dates, Head(ts), "L30"))
          THEN <<Unit("hls_tile", "HLS", Head(ts), d, band, band_output_dir(band))>>
          ELSE <<>>)
         \o hls_tile_units(Tail(ts), d, band)

hls_units(d, band) ==
    hls_tile_units(tiles, d, band)
    \o (IF params.geometry.kind # "None"
        THEN <<Unit("hls_mosaic", "HLS", "-", d, band, band_output_dir(band))>>
        ELSE <<>>)

\* mutant: availability is tested on the dates of both sensors, as in mode HLS
RECURSIVE sensor_tile_units_any_sensor(_, _, _, _)
sensor_tile_units_any_sensor(ts, sensor, d, band) ==
    IF ts = <<>> THEN <<>>
    ELSE (IF IsIn(d, available_dates(tile_sensor_dates, Head(ts), "S30")
                     \o available_dates(tile_sensor_dates, Head(ts), "L30"))
          THEN <<Unit("band", sensor, Head(ts), d, band, band_output_dir(band))>>
          ELSE <<>>)
         \o sensor_tile_units_any_sensor(Tail(ts), sensor, d, band)

RECURSIVE sensor_tile_units(_, _, _, _)
sensor_tile_units(ts, sensor, d, band) ==
    IF ts = <<>> THEN <<>>
    ELSE (IF IsIn(d, available_dates(tile_sensor_dates, Head(ts), sensor))
          THEN <<Unit("band", sensor, Head(ts), d, band, band_output_dir(band))>>
          ELSE <<>>)
         \o sensor_tile_units(Tail(ts), sensor, d, band)

sensor_units(sensor, d, band) ==
    IF params.geometry.kind = "None"
    THEN sensor_tile_units(tiles, sensor, d, band)
    ELSE <<Unit("mosaic", sensor, "-", d, band, band_output_dir(band))>>

\* mutant: the sensors are visited in the opposite order
both_sensor_order_reversed == <<"L30", "S30">>

both_sensor_order == <<"S30", "L30">>

RECURSIVE both_sensor_units(_, _, _, _)
both_sensor_units(ss, tile, d, band) ==
    IF ss = <<>> THEN <<>>
    ELSE (IF IsIn(d, available_dates(tile_sensor_dates, tile, Head(ss)))
          THEN <<Unit("band", Head(ss), tile, d, band, sensor_output_dir(Head(ss), band))>>
          ELSE <<>>)
         \o both_sensor_units(Tail(ss), tile, d, band)

RECURSIVE both_tile_units(_, _, _)
both_tile_units(ts, d, band) ==
    IF ts = <<>> THEN <<>>
    ELSE both_sensor_units(both_sensor_order, Head(ts), d, band)
         \o both_tile_units(Tail(ts), d, band)

RECURSIVE both_mosaic_units(_, _, _)
both_mosaic_units(ss, d, band) ==
    IF ss = <<>> THEN <<>>
    ELSE <<Unit("mosaic", Head(ss), "-", d, band, sensor_output_dir(Head(ss), band))>>
         \o both_mosaic_units(Tail(ss), d, band)

both_units(d, band) ==
    IF params.geometry.kind = "None"
    THEN both_tile_units(tiles, d, band)
    ELSE both_mosaic_units(both_sensor_order, d, band)

dispatch(d, band) ==
    IF params.source = "HLS" THEN hls_units(d, band)
    ELSE IF params.source = "S30" THEN sensor_units("S30", d, band)
    ELSE IF params.source = "L30" THEN sensor_units("L30", d, band)
    ELSE IF params.source = "both" THEN both_units(d, band)
    ELSE <<>>

\* os.path.join(None, band) raises TypeError: lines 221 and 329
join_raises(directory) == directory.kind = "none"

\* one iteration of the band loop: the join of lines 221 / 329-330, then the mode
band_units(d, band) ==
    IF join_raises(output_directory)
    THEN <<Unit("join", "-", "-", d, band, <<>>)>>
    ELSE dispatch(d, band)

RECURSIVE band_loop(_, _)
band_loop(d, bs) ==
    IF bs = <<>> THEN <<>> ELSE band_units(d, Head(bs)) \o band_loop(d, Tail(bs))

RECURSIVE date_loop(_)
date_loop(ds) ==
    IF ds = <<>> THEN <<>> ELSE band_loop(Head(ds), bands) \o date_loop(Tail(ds))

Schedule(dates) == date_loop(dates)

(***************************************************************************)
(* Index: lines 160-210.                                                   *)
(***************************************************************************)
\* mutant: the tile loop stops one tile short
tiles_exhausted_one_short(i, ts) == i >= Len(ts)

\* `for tile in tiles` has no tile left, line 167
tiles_exhausted(i, ts) == i > Len(ts)

IndexTile ==
    /\ pc = "Index"
    /\ ~tiles_exhausted(ti, tiles)
    /\ LET tile == tiles[ti]
           rows == listing(catalog, tile, start_date_UTC, end_date_UTC)
       IN  \E o \in Outcomes(env, ListingKey(tile), {"ok", "raise"}) :
             /\ env' = Record(env, ListingKey(tile), o)
             /\ log' = log \o <<[op |-> "listing", tile |-> tile]>>
             /\ IF o = "raise"
                THEN /\ pc' = "Raised"
                     /\ UNCHANGED <<tile_sensor_dates, all_dates, ti>>
                ELSE /\ pc' = pc
                     /\ tile_sensor_dates' = store_calendar(tile_sensor_dates, tile, rows)
                     /\ all_dates' = update_all_dates(all_dates, rows)
                     /\ ti' = ti + 1
    /\ UNCHANGED <<params, catalog, output_directory, run, prev, start_date_UTC, end_date_UTC, bands,
                   tiles, queue, images, output_filenames, fs_dirs, fs_files, written>>

SortDates ==
    /\ pc = "Index"
    /\ tiles_exhausted(ti, tiles)
    /\ all_dates' = sorted(all_dates)
    /\ queue' = Schedule(sorted(all_dates))
    /\ pc' = "Dispatch"
    /\ UNCHANGED <<params, catalog, output_directory, env, run, prev, start_date_UTC, end_date_UTC,
                   bands, tiles, tile_sensor_dates, ti, images, output_filenames,
                   fs_dirs, fs_files, written, log>>

(***************************************************************************)
(* process_sensor_band.  `o` is what the collaborators do in this call.    *)
(***************************************************************************)
NoFile == <<>>

Content(imgs, geometry) == [images |-> imgs, geometry |-> geometry]

\* the body of the try block, lines 40-71; exc names what it raised, if anything
band_try(sensor, d, d_parsed, band, tile, o, output_dir, dirs, files) ==
    LET resolve == [op |-> IF sensor = "S30" THEN "sentinel" ELSE "landsat",
                    tile |-> tile, date |-> d_parsed]
        product == [op |-> "granule.product", tile |-> tile, band |-> band]
        filename == join(output_dir,
                         sensor \o "_" \o band \o "_" \o tile \o "_" \o strftime(d_parsed) \o ".tif")
        directory == dirname(expanduser(filename))
        md == IF directory # <<>> THEN makedirs(dirs, directory)
              ELSE [raised |-> FALSE, dirs |-> dirs]
        mk == IF directory # <<>> THEN <<[op |-> "makedirs", path |-> directory]>> ELSE <<>>
        wr == [op |-> "to_geotiff", path |-> expanduser(filename)]
    IN  IF o = "resolve_err"
        THEN [exc |-> "Exception", filename |-> NoFile, dirs |-> dirs, files |-> files,
              events |-> <<resolve>>, wrote |-> <<>>]
        ELSE IF o = "missing_band"
        THEN [exc |-> "KeyError", filename |-> NoFile, dirs |-> dirs, files |-> files,
              events |-> <<resolve, product>>, wrote |-> <<>>]
        ELSE IF o = "product_err"
        THEN [exc |-> "Exception", filename |-> NoFile, dirs |-> dirs, files |-> files,
              events |-> <<resolve, product>>, wrote |-> <<>>]
        ELSE IF md.raised
        THEN [exc |-> "Exception", filename |-> filename, dirs |-> dirs, files |-> files,
              events |-> <<resolve, product>> \o mk, wrote |-> <<>>]
        ELSE IF o = "write_err"
        THEN [exc |-> "Exception", filename |-> filename, dirs |-> md.dirs, files |-> files,
              events |-> <<resolve, product>> \o mk \o <<wr>>, wrote |-> <<>>]
        ELSE [exc |-> "", filename |-> filename, dirs |-> md.dirs,
              files |-> to_geotiff(files, expanduser(filename),
                                   Content(<<Image(sensor, tile, d, band)>>, NoGeometry)),
              events |-> <<resolve, product>> \o mk \o <<wr>>,
              wrote |-> <<expanduser(filename)>>]

\* mutant: the outer `except Exception` is missing, the error reaches the caller
process_sensor_band_uncaught(sensor, d, d_parsed, band, tile, o, output_dir, dirs, files) ==
    LET r == band_try(sensor, d, d_parsed, band, tile, o, output_dir, dirs, files)
    IN  [filename |-> IF r.exc = "" THEN r.filename ELSE NoFile,
         raised |-> r.exc = "Exception",
         dirs |-> r.dirs, files |-> r.files, events |-> r.events, wrote |-> r.wrote]

\* mutant: the handler returns the file name it had built instead of None
process_sensor_band_returns_name(sensor, d, d_parsed, band, tile, o, output_dir, dirs, files) ==
    LET r == band_try(sensor, d, d_parsed, band, tile, o, output_dir, dirs, files)
    IN  [filename |-> r.filename, raised |-> FALSE,
         dirs |-> r.dirs, files |-> r.files, events |-> r.events, wrote |-> r.wrote]

process_sensor_band(sensor, d, d_parsed, band, tile, o, output_dir, dirs, files) ==
    LET r == band_try(sensor, d, d_parsed, band, tile, o, output_dir, dirs, files)
    IN  [filename |-> IF r.exc = "" THEN r.filename ELSE NoFile,
         raised |-> FALSE,
         dirs |-> r.dirs, files |-> r.files, events |-> r.events, wrote |-> r.wrote]

BandKey(u) == <<"band", u.sensor, u.tile, u.d, u.band>>

BandPossible(sensor, band) ==
    IF BandOnSensor(band, sensor)
    THEN {"ok", "resolve_err", "product_err", "write_err"}
    ELSE {"resolve_err", "missing_band"}

Advance == queue' = Tail(queue)

SensorBand ==
    /\ pc = "Dispatch"
    /\ queue # <<>>
    /\ Head(queue).op = "band"
    /\ LET u == Head(queue) IN
       \E o \in Outcomes(env, BandKey(u), BandPossible(u.sensor, u.band)) :
         LET r == process_sensor_band(u.sensor, u.d, parse(u.d), u.band, u.tile, o,
                                      u.dir, fs_dirs, fs_files)
         IN  /\ env' = Record(env, BandKey(u), o)
             /\ output_filenames' = IF r.filename # NoFile
                                    THEN Append(output_filenames, r.filename)
                                    ELSE output_filenames
             /\ fs_dirs' = r.dirs
             /\ fs_files' = r.files
             /\ written' = written \o r.wrote
             /\ log' = log \o r.events
             /\ pc' = IF r.raised THEN "Raised" ELSE pc
    /\ Advance
    /\ UNCHANGED <<params, catalog, output_directory, run, prev, start_date_UTC, end_date_UTC, bands,
                   tiles, tile_sensor_dates, all_dates, ti, images>>

(***************************************************************************)
(* process_sensor_mosaic.  `ext` gives, for each tile, what the granule    *)
(* collaborators do for it in this call, `mo` what the raster library and  *)
(* the write do.                                                           *)
(***************************************************************************)
RECURSIVE collect_images(_, _, _, _, _, _, _)
collect_images(ts, tsd, sensor, d, d_parsed, band, ext) ==
    IF ts = <<>> THEN [images |-> <<>>, events |-> <<>>]
    ELSE LET tile == Head(ts)
             rest == collect_images(Tail(ts), tsd, sensor, d, d_parsed, band, ext)
             resolve == [op |-> IF sensor = "S30" THEN "sentinel" ELSE "landsat",
                         tile |-> tile, date |-> d_parsed]
             product == [op |-> "granule.product", tile |-> tile, band |-> band]
         IN  IF ~IsIn(d, available_dates(tsd, tile, sensor)) THEN rest
             ELSE IF ext[tile] = "resolve_err"
             THEN [images |-> rest.images, events |-> <<resolve>> \o rest.events]
             ELSE IF ext[tile] \in {"missing_band", "product_err"}
             THEN [images |-> rest.images, events |-> <<resolve, product>> \o rest.events]
             ELSE [images |-> <<Image(sensor, tile, d, band)>> \o rest.images,
                   events |-> <<resolve, product>> \o rest.events]

\* mutant: the grid is taken from the last collected image
mosaic_geometry_last_image(geometry, imgs) ==
    IF geometry.kind = "BBox"
    THEN [kind |-> "RasterGrid", crs |-> imgs[Len(imgs)].crs,
          cell_size |-> imgs[Len(imgs)].cell_size]
    ELSE geometry

mosaic_geometry(geometry, imgs) ==
    IF geometry.kind = "BBox"
    THEN [kind |-> "RasterGrid", crs |-> imgs[1].crs, cell_size |-> imgs[1].cell_size]
    ELSE geometry

grid_events(geometry, imgs) ==
    IF geometry.kind = "BBox"
    THEN <<[op |-> "to_crs", crs |-> imgs[1].crs],
           [op |-> "RasterGrid.from_bbox", crs |-> imgs[1].crs, cell_size |-> imgs[1].cell_size]>>
    ELSE <<>>

\* lines 82-99: grid, composition and write of the collected images
compose(imgs, events, filename, mo, geometry, dirs, files) ==
    LET grid == mosaic_geometry(geometry, imgs)
        mos == [op |-> "mosaic", images |-> imgs, geometry |-> grid]
        directory == dirname(expanduser(filename))
        md == IF directory # <<>> THEN makedirs(dirs, directory)
              ELSE [raised |-> FALSE, dirs |-> dirs]
        mk == IF directory # <<>> THEN <<[op |-> "makedirs", path |-> directory]>> ELSE <<>>
        wr == [op |-> "to_geotiff", path |-> expanduser(filename)]
    IN  IF mo = "grid_err" /\ geometry.kind = "BBox"
        THEN [filename |-> NoFile, raised |-> FALSE, dirs |-> dirs, files |-> files,
              events |-> events \o SubSeq(grid_events(geometry, imgs), 1, 1),
              wrote |-> <<>>]
        ELSE IF mo = "mosaic_err"
        THEN [filename |-> NoFile, raised |-> FALSE, dirs |-> dirs, files |-> files,
              events |-> events \o grid_events(geometry, imgs) \o <<mos>>,
              wrote |-> <<>>]
        ELSE IF md.raised
        THEN [filename |-> NoFile, raised |-> FALSE, dirs |-> dirs, files |-> files,
              events |-> events \o grid_events(geometry, imgs) \o <<mos>> \o mk,
              wrote |-> <<>>]
        ELSE IF mo = "write_err"
        THEN [filename |-> NoFile, raised |-> FALSE, dirs |-> md.dirs, files |-> files,
              events |-> events \o grid_events(geometry, imgs) \o <<mos>> \o mk \o <<wr>>,
              wrote |-> <<>>]
        ELSE [filename |-> filename, raised |-> FALSE, dirs |-> md.dirs,
              files |-> to_geotiff(files, expanduser(filename), Content(imgs, grid)),
              events |-> events \o grid_events(geometry, imgs) \o <<mos>> \o mk \o <<wr>>,
              wrote |-> <<expanduser(filename)>>]

\* mutant: the empty-list check is made only where the grid is derived from an image
process_sensor_mosaic_unguarded(sensor, d, d_parsed, band, tls, tsd, ext, mo, geometry, output_dir, dirs, files) ==
    LET c == collect_images(tls, tsd, sensor, d, d_parsed, band, ext)
        filename == join(output_dir,
                         sensor \o "_" \o band \o "_" \o strftime(d_parsed) \o ".tif")
    IN  IF Len(c.images) = 0 /\ geometry.kind = "BBox"
        THEN [filename |-> NoFile, raised |-> FALSE, dirs |-> dirs, files |-> files,
              events |-> c.events, wrote |-> <<>>]
        ELSE compose(c.images, c.events, filename, mo, geometry, dirs, files)

process_sensor_mosaic(sensor, d, d_parsed, band, tls, tsd, ext, mo, geometry, output_dir, dirs, files) ==
    LET c == collect_images(tls, tsd, sensor, d, d_parsed, band, ext)
        filename == join(output_dir,
                         sensor \o "_" \o band \o "_" \o strftime(d_parsed) \o ".tif")
    IN  IF Len(c.images) = 0
        THEN [filename |-> NoFile, raised |-> FALSE, dirs |-> dirs, files |-> files,
              events |-> c.events, wrote |-> <<>>]
        ELSE compose(c.images, c.events, filename, mo, geometry, dirs, files)

ExtractKey(sensor, tile, d, band) == <<"extract", sensor, tile, d, band>>

ExtractPossible(sensor, band) ==
    IF BandOnSensor(band, sensor)
    THEN {"ok", "resolve_err", "product_err"}
    ELSE {"resolve_err", "missing_band"}

MosaicKey(u) == <<"mosaic", u.sensor, "-", u.d, u.band>>

MosaicPossible(geometry) ==
    {"ok", "mosaic_err", "write_err"} \cup (IF geometry.kind = "BBox" THEN {"grid_err"} ELSE {})

AvailableTiles(sensor, d) ==
    {t \in Elems(tiles) : IsIn(d, available_dates(tile_sensor_dates, t, sensor))}

RECURSIVE RecordAll(_, _, _, _, _, _)
RecordAll(e, S, sensor, d, band, ext) ==
    IF S = {} THEN e
    ELSE LET t == CHOOSE x \in S : TRUE
         IN  RecordAll(Record(e, ExtractKey(sensor, t, d, band), ext[t]),
                       S \ {t}, sensor, d, band, ext)

SensorMosaic ==
    /\ pc = "Dispatch"
    /\ queue # <<>>
    /\ Head(queue).op = "mosaic"
    /\ LET u == Head(queue)
           avail == AvailableTiles(u.sensor, u.d)
       IN
       \E ext \in [avail -> {"ok", "resolve_err", "product_err", "missing_band"}],
          mo \in MosaicPossible(params.geometry) :
         LET e1 == RecordAll(env, avail, u.sensor, u.d, u.band, ext)
             collected == {t \in avail : ext[t] = "ok"} # {}
             e2 == IF collected THEN Record(e1, MosaicKey(u), mo) ELSE e1
             r == process_sensor_mosaic(u.sensor, u.d, parse(u.d), u.band, tiles,
                                        tile_sensor_dates, ext, mo, params.geometry,
                                        u.dir, fs_dirs, fs_files)
         IN  /\ \A t \in avail :
                   IF ExtractKey(u.sensor, t, u.d, u.band) \in DOMAIN env
                   THEN ext[t] = env[ExtractKey(u.sensor, t, u.d, u.band)]
                   ELSE ext[t] \in ExtractPossible(u.sensor, u.band)
             /\ IF collected
                THEN MosaicKey(u) \in DOMAIN env => mo = env[MosaicKey(u)]
                ELSE mo = "ok"
             /\ e2 # env => Faults(e2) <= MaxFaults
             /\ env' = e2
             /\ output_filenames' = IF r.filename # NoFile
                                    THEN Append(output_filenames, r.filename)
                                    ELSE output_filenames
             /\ fs_dirs' = r.dirs
             /\ fs_files' = r.files
             /\ written' = written \o r.wrote
             /\ log' = log \o r.events
             /\ pc' = IF r.raised THEN "Raised" ELSE pc
    /\ Advance
    /\ UNCHANGED <<params, catalog, output_directory, run, prev, start_date_UTC, end_date_UTC, bands,
                   tiles, tile_sensor_dates, all_dates, ti, images>>

(***************************************************************************)
(* Source mode HLS: lines 224-294.                                         *)
(***************************************************************************)
\* lines 245-259: the per-tile write of mode HLS
hls_write_tile(d, d_parsed, band, tile, o, output_dir, imgs, dirs, files) ==
    LET product == [op |-> "product", tile |-> tile, band |-> band, date |-> d_parsed]
        image == Image("HLS", tile, d, band)
        filename == join(output_dir,
                         "HLS_" \o band \o "_" \o tile \o "_" \o strftime(d_parsed) \o ".tif")
        directory == dirname(expanduser(filename))
        md == IF directory # <<>> THEN makedirs(dirs, directory)
              ELSE [raised |-> FALSE, dirs |-> dirs]
        mk == IF directory # <<>> THEN <<[op |-> "makedirs", path |-> directory]>> ELSE <<>>
        wr == [op |-> "to_geotiff", path |-> expanduser(filename)]
    IN  IF md.raised
        THEN [filename |-> NoFile, raised |-> FALSE, images |-> imgs, dirs |-> dirs,
              files |-> files, events |-> <<product>> \o mk, wrote |-> <<>>]
        ELSE IF o = "write_err"
        THEN [filename |-> NoFile, raised |-> FALSE, images |-> imgs, dirs |-> md.dirs,
              files |-> files, events |-> <<product>> \o mk \o <<wr>>, wrote |-> <<>>]
        ELSE [filename |-> filename, raised |-> FALSE, images |-> imgs, dirs |-> md.dirs,
              files |-> to_geotiff(files, expanduser(filename), Content(<<image>>, NoGeometry)),
              events |-> <<product>> \o mk \o <<wr>>,
              wrote |-> <<expanduser(filename)>>]

\* mutant: the per-tile file is written whether or not a geometry was given
hls_tile_always_writes(d, d_parsed, band, tile, o, geometry, output_dir, imgs, dirs, files) ==
    IF o = "product_err"
    THEN [filename |-> NoFile, raised |-> FALSE, images |-> imgs, dirs |-> dirs,
          files |-> files,
          events |-> <<[op |-> "product", tile |-> tile, band |-> band, date |-> d_parsed]>>,
          wrote |-> <<>>]
    ELSE hls_write_tile(d, d_parsed, band, tile, o, output_dir, imgs, dirs, files)

\* lines 236-266: one iteration of the tile loop of mode HLS
hls_tile(d, d_parsed, band, tile, o, geometry, output_dir, imgs, dirs, files) ==
    IF o = "product_err"
    THEN [filename |-> NoFile, raised |-> FALSE, images |-> imgs, dirs |-> dirs,
          files |-> files,
          events |-> <<[op |-> "product", tile |-> tile, band |-> band, date |-> d_parsed]>>,
          wrote |-> <<>>]
    ELSE IF geometry.kind # "None"
    THEN [filename |-> NoFile, raised |-> FALSE,
          images |-> Append(imgs, Image("HLS", tile, d, band)), dirs |-> dirs,
          files |-> files,
          events |-> <<[op |-> "product", tile |-> tile, band |-> band, date |-> d_parsed]>>,
          wrote |-> <<>>]
    ELSE hls_write_tile(d, d_parsed, band, tile, o, output_dir, imgs, dirs, files)

HLSKey(u) == <<"hls_tile", "HLS", u.tile, u.d, u.band>>

HLSPossible(geometry) ==
    {"ok", "product_err"} \cup (IF geometry.kind = "None" THEN {"write_err"} ELSE {})

HLSTile ==
    /\ pc = "Dispatch"
    /\ queue # <<>>
    /\ Head(queue).op = "hls_tile"
    /\ LET u == Head(queue) IN
       \E o \in Outcomes(env, HLSKey(u), HLSPossible(params.geometry)) :
         LET r == hls_tile(u.d, parse(u.d), u.band, u.tile, o, params.geometry,
                           u.dir, images, fs_dirs, fs_files)
         IN  /\ env' = Record(env, HLSKey(u), o)
             /\ images' = r.images
             /\ output_filenames' = IF r.filename # NoFile
                                    THEN Append(output_filenames, r.filename)
                                    ELSE output_filenames
             /\ fs_dirs' = r.dirs
             /\ fs_files' = r.files
             /\ written' = written \o r.wrote
             /\ log' = log \o r.events
             /\ pc' = IF r.raised THEN "Raised" ELSE pc
    /\ Advance
    /\ UNCHANGED <<params, catalog, output_directory, run, prev, start_date_UTC, end_date_UTC, bands,
                   tiles, tile_sensor_dates, all_dates, ti>>

hls_mosaic(d_parsed, band, imgs, mo, geometry, output_dir, dirs, files) ==
    LET filename == join(output_dir,
                         "HLS_" \o band \o "_" \o strftime(d_parsed) \o ".tif")
        grid == mosaic_geometry(geometry, imgs)
        mos == [op |-> "mosaic", images |-> imgs, geometry |-> grid]
        directory == dirname(expanduser(filename))
        md == IF directory # <<>> THEN makedirs(dirs, directory)
              ELSE [raised |-> FALSE, dirs |-> dirs]
        mk == IF directory # <<>> THEN <<[op |-> "makedirs", path |-> directory]>> ELSE <<>>
        wr == [op |-> "to_geotiff", path |-> expanduser(filename)]
    IN  IF ~(geometry.kind # "None" /\ Len(imgs) > 0)
        THEN [filename |-> NoFile, raised |-> FALSE, dirs |-> dirs, files |-> files,
              events |-> <<>>, wrote |-> <<>>]
        ELSE IF mo = "grid_err" /\ geometry.kind = "BBox"
        THEN [filename |-> NoFile, raised |-> FALSE, dirs |-> dirs, files |-> files,
              events |-> SubSeq(grid_events(geometry, imgs), 1, 1), wrote |-> <<>>]
        ELSE IF mo = "mosaic_err"
        THEN [filename |-> NoFile, raised |-> FALSE, dirs |-> dirs, files |-> files,
              events |-> grid_events(geometry, imgs) \o <<mos>>, wrote |-> <<>>]
        ELSE IF md.raised
        THEN [filename |-> NoFile, raised |-> FALSE, dirs |-> dirs, files |-> files,
              events |-> grid_events(geometry, imgs) \o <<mos>> \o mk, wrote |-> <<>>]
        ELSE IF mo = "write_err"
        THEN [filename |-> NoFile, raised |-> FALSE, dirs |-> md.dirs, files |-> files,
              events |-> grid_events(geometry, imgs) \o <<mos>> \o mk \o <<wr>>,
              wrote |-> <<>>]
        ELSE [filename |-> filename, raised |-> FALSE, dirs |-> md.dirs,
              files |-> to_geotiff(files, expanduser(filename), Content(imgs, grid)),
              events |-> grid_events(geometry, imgs) \o <<mos>> \o mk \o <<wr>>,
              wrote |-> <<expanduser(filename)>>]

HLSMosaic ==
    /\ pc = "Dispatch"
    /\ queue # <<>>
    /\ Head(queue).op = "hls_mosaic"
    /\ LET u == Head(queue) IN
       \E mo \in (IF Len(images) > 0
                  THEN Outcomes(env, MosaicKey(u), MosaicPossible(params.geometry))
                  ELSE {"ok"}) :
         LET r == hls_mosaic(parse(u.d), u.band, images, mo, params.geometry,
                             u.dir, fs_dirs, fs_files)
         IN  /\ env' = IF Len(images) > 0 THEN Record(env, MosaicKey(u), mo) ELSE env
             /\ output_filenames' = IF r.filename # NoFile
                                    THEN Append(output_filenames, r.filename)
                                    ELSE output_filenames
             /\ fs_dirs' = r.dirs
             /\ fs_files' = r.files
             /\ written' = written \o r.wrote
             /\ log' = log \o r.events
             /\ pc' = IF r.raised THEN "Raised" ELSE pc
    /\ images' = <<>>
    /\ Advance
    /\ UNCHANGED <<params, catalog, output_directory, run, prev, start_date_UTC, end_date_UTC, bands,
                   tiles, tile_sensor_dates, all_dates, ti>>

(***************************************************************************)
(* Return: line 350.                                                       *)
(***************************************************************************)
(***************************************************************************)
(* The band directory cannot be built: output_directory is None, lines 221 *)
(* and 329.  The TypeError leaves generate_HLS_timeseries.                 *)
(***************************************************************************)
JoinError ==
    /\ pc = "Dispatch"
    /\ queue # <<>>
    /\ Head(queue).op = "join"
    /\ pc' = "Raised"
    /\ UNCHANGED <<params, catalog, output_directory, env, run, prev, start_date_UTC,
                   end_date_UTC, bands, tiles, tile_sensor_dates, all_dates, ti, queue,
                   images, output_filenames, fs_dirs, fs_files, written, log>>

Return ==
    /\ pc = "Dispatch"
    /\ queue = <<>>
    /\ pc' = "Done"
    /\ UNCHANGED <<params, catalog, output_directory, env, run, prev, start_date_UTC, end_date_UTC, bands,
                   tiles, tile_sensor_dates, all_dates, ti, queue, images, output_filenames,
                   fs_dirs, fs_files, written, log>>

(***************************************************************************)
(* The caller invokes generate_HLS_timeseries again with the same          *)
(* parameters; the file system and the environment are as the previous     *)
(* invocation left them.                                                   *)
(***************************************************************************)
Rerun ==
    /\ pc \in {"Done", "Raised"}
    /\ run < MaxRuns
    /\ run' = run + 1
    /\ prev' = [status |-> pc, output |-> output_filenames, written |-> written]
    /\ pc' = "Validate"
    /\ start_date_UTC' = DayDate(1)
    /\ end_date_UTC' = DayDate(1)
    /\ bands' = <<>>
    /\ tiles' = <<>>
    /\ output_directory' = NoneArg
    /\ tile_sensor_dates' = <<>>
    /\ all_dates' = {}
    /\ ti' = 1
    /\ queue' = <<>>
    /\ images' = <<>>
    /\ output_filenames' = <<>>
    /\ written' = <<>>
    /\ log' = <<>>
    /\ UNCHANGED <<params, catalog, env, fs_dirs, fs_files>>

Next ==
    \/ Validate
    \/ IndexTile
    \/ SortDates
    \/ SensorBand
    \/ SensorMosaic
    \/ HLSTile
    \/ HLSMosaic
    \/ JoinError
    \/ Return

Spec == Init /\ [][Next]_vars

NextRerun == Next \/ Rerun

SpecRerun == Init /\ [][NextRerun]_vars

(***************************************************************************)
(* What the caller expects, stated from the catalog and the parameters.    *)
(***************************************************************************)
NotDash(c) == c # "-"

Stamp(day) == Join(SelectSeq(isoformat(DayDate(day)), NotDash))

DayStr(day) == isoformat(DayDate(day))

InWindow(day) == 1 <= day /\ day <= params.end_date_UTC.dt.day

Avail(tile, day, sensor) == InWindow(day) /\ <<tile, day, sensor>> \in catalog

AvailAny(tile, day) == Avail(tile, day, "S30") \/ Avail(tile, day, "L30")

SubTree(sensor) == IF params.source = "both" THEN <<sensor>> ELSE <<>>

\* the directory the caller asked the files to be put under
CallerDirectory ==
    IF params.output_directory.kind # "none" THEN params.output_directory.v
    ELSE params.download_directory.v

ExpectedTilePath(sensor, band, tile, day) ==
    CallerDirectory \o SubTree(sensor)
      \o <<band, sensor \o "_" \o band \o "_" \o tile \o "_" \o Stamp(day) \o ".tif">>

ExpectedMosaicPath(sensor, band, day) ==
    CallerDirectory \o SubTree(sensor)
      \o <<band, sensor \o "_" \o band \o "_" \o Stamp(day) \o ".tif">>

OnDisk(path) == HomeDirectory \o Tail(path)

EnvIs(key, o) == key \in DOMAIN env /\ env[key] = o

ModeSensors ==
    IF params.source = "both" THEN Sensors
    ELSE IF params.source \in Sensors THEN {params.source}
    ELSE {}

WithGeometry == params.geometry.kind # "None"

Returned == Elems(output_filenames)

FilesOnDisk == {f.path : f \in fs_files}

UnitFaults == {"resolve_err", "product_err", "write_err", "grid_err", "mosaic_err"}

(***************************************************************************)
(* C1: a listing query that raises for one tile does not abort the run:    *)
(* the run does not end in an error, the tile's calendar is empty and      *)
(* every tile of the tile list is queried.                                 *)
(***************************************************************************)
C1_ListingFailureDoesNotAbort ==
    \A t \in Elems(tiles) :
        EnvIs(ListingKey(t), "raise") =>
            /\ pc # "Raised"
            /\ pc \in {"Dispatch", "Done"} =>
                 /\ t \in DOMAIN tile_sensor_dates
                 /\ tile_sensor_dates[t] = [S30 |-> <<>>, L30 |-> <<>>]
                 /\ \A t2 \in Elems(tiles) :
                      \E i \in 1..Len(log) : log[i].op = "listing" /\ log[i].tile = t2

(***************************************************************************)
(* C2: a unit whose resolution, extraction or write fails does not make    *)
(* the run raise, and every unit that has availability and whose own       *)
(* operations succeed has its output in the returned list.                 *)
(***************************************************************************)
C2_FailureIsolation ==
    /\ pc = "Raised" => \A key \in DOMAIN env : key[1] = "listing"
    /\ pc = "Done" =>
         \A day \in Days, i \in 1..Len(bands), t \in Elems(tiles) :
           /\ \A s \in ModeSensors :
                /\ (~WithGeometry /\ Avail(t, day, s)
                      /\ EnvIs(<<"band", s, t, DayStr(day), bands[i]>>, "ok"))
                   => ExpectedTilePath(s, bands[i], t, day) \in Returned
                /\ (WithGeometry /\ Avail(t, day, s)
                      /\ EnvIs(<<"extract", s, t, DayStr(day), bands[i]>>, "ok")
                      /\ EnvIs(<<"mosaic", s, "-", DayStr(day), bands[i]>>, "ok"))
                   => ExpectedMosaicPath(s, bands[i], day) \in Returned
           /\ params.source = "HLS" =>
                /\ (~WithGeometry /\ AvailAny(t, day)
                      /\ EnvIs(<<"hls_tile", "HLS", t, DayStr(day), bands[i]>>, "ok"))
                   => ExpectedTilePath("HLS", bands[i], t, day) \in Returned
                /\ (WithGeometry /\ AvailAny(t, day)
                      /\ EnvIs(<<"hls_tile", "HLS", t, DayStr(day), bands[i]>>, "ok")
                      /\ EnvIs(<<"mosaic", "HLS", "-", DayStr(day), bands[i]>>, "ok"))
                   => ExpectedMosaicPath("HLS", bands[i], day) \in Returned

C2_Witness ==
    /\ pc = "Done"
    /\ \E key \in DOMAIN env : key[1] # "listing" /\ env[key] \in UnitFaults
    /\ output_filenames # <<>>

(***************************************************************************)
(* C3: with an unknown source, or with neither tiles nor geometry, the run *)
(* fails and no collaborator has been touched: no tile lookup, listing,    *)
(* granule resolution, directory creation or file write.                   *)
(***************************************************************************)
C3_PreflightRejection ==
    (   \/ params.source \notin {"HLS", "S30", "L30", "both"}
        \/ (params.tiles.kind = "none" /\ params.geometry.kind = "None"))
    => /\ pc \in {"Validate", "Raised"}
       /\ log = <<>>
       /\ DOMAIN env = {}
       /\ fs_dirs = {}
       /\ fs_files = {}
       /\ written = <<>>

C3_Witness ==
    /\ pc = "Raised"
    /\ params.source \notin {"HLS", "S30", "L30", "both"}
    /\ log = <<>>

(***************************************************************************)
(* C4: at the end of a run the returned paths are exactly the paths whose  *)
(* raster write completed in this run, and a unit that was skipped or      *)
(* failed contributes no path.                                             *)
(***************************************************************************)
C4_ReturnedIffWritten ==
    pc = "Done" =>
      /\ [i \in 1..Len(output_filenames) |-> expanduser(output_filenames[i])] = written
      /\ FilesOnDisk = Elems(written)
      /\ \A day \in Days, i \in 1..Len(bands), t \in Tiles, s \in Sensors \cup {"HLS"} :
           /\ (s # "HLS" /\ ~Avail(t, day, s))
              => ExpectedTilePath(s, bands[i], t, day) \notin Returned
           /\ (s = "HLS" /\ ~AvailAny(t, day))
              => ExpectedTilePath(s, bands[i], t, day) \notin Returned
           /\ (\E o \in UnitFaults \cup {"missing_band"} :
                 \/ EnvIs(<<"band", s, t, DayStr(day), bands[i]>>, o)
                 \/ EnvIs(<<"hls_tile", s, t, DayStr(day), bands[i]>>, o))
              => ExpectedTilePath(s, bands[i], t, day) \notin Returned
           /\ (\/ \E o \in UnitFaults : EnvIs(<<"mosaic", s, "-", DayStr(day), bands[i]>>, o)
               \/ <<"mosaic", s, "-", DayStr(day), bands[i]>> \notin DOMAIN env)
              => ExpectedMosaicPath(s, bands[i], day) \notin Returned

C4_Witness ==
    /\ pc = "Done"
    /\ \E key \in DOMAIN env : env[key] = "write_err"
    /\ Len(output_filenames) = 1
    /\ Len(written) = 1


(***************************************************************************)
(* C5: in mode both, every file under the S30 subtree holds S30 imagery    *)
(* only and every file under the L30 subtree L30 imagery only; the paths   *)
(* the two sensors write are disjoint and no invocation for one sensor     *)
(* writes into the subtree of the other.                                   *)
(***************************************************************************)
SensorPaths(s) ==
    {OnDisk(ExpectedTilePath(s, bands[i], t, day)) :
        i \in 1..Len(bands), t \in Tiles, day \in Days}
    \cup {OnDisk(ExpectedMosaicPath(s, bands[i], day)) : i \in 1..Len(bands), day \in Days}

SubTreeOf(path) == path[Len(HomeDirectory) + Len(CallerDirectory)]

C5_SensorSubtreesSeparate ==
    params.source = "both" =>
      /\ SensorPaths("S30") \cap SensorPaths("L30") = {}
      /\ \A f \in fs_files :
           /\ SubTreeOf(f.path) \in Sensors
           /\ f.path \in SensorPaths(SubTreeOf(f.path))
           /\ f.content.images # <<>>
           /\ \A j \in 1..Len(f.content.images) :
                f.content.images[j].sensor = SubTreeOf(f.path)

C5_Witness ==
    /\ params.source = "both"
    /\ pc = "Done"
    /\ \E f \in fs_files : SubTreeOf(f.path) = "S30"
    /\ \E f \in fs_files : SubTreeOf(f.path) = "L30"

(***************************************************************************)
(* C6: a call of process_sensor_mosaic that collects no image returns      *)
(* None, does not call the compositing primitive, creates no directory     *)
(* and writes no file.                                                     *)
(***************************************************************************)
MosaicStepCollectsNothing ==
    /\ pc = "Dispatch"
    /\ queue # <<>>
    /\ Head(queue).op = "mosaic"
    /\ queue' = Tail(queue)
    /\ \A t \in AvailableTiles(Head(queue).sensor, Head(queue).d) :
         LET key == ExtractKey(Head(queue).sensor, t, Head(queue).d, Head(queue).band)
         IN  key \in DOMAIN env' /\ env'[key] # "ok"

C6_EmptyMosaicNeverWritten ==
    [][MosaicStepCollectsNothing =>
         /\ output_filenames' = output_filenames
         /\ fs_dirs' = fs_dirs
         /\ fs_files' = fs_files
         /\ written' = written
         /\ \A j \in (Len(log) + 1)..Len(log') :
              log'[j].op \notin {"mosaic", "to_crs", "RasterGrid.from_bbox",
                                 "makedirs", "to_geotiff"}]_vars

C6_Witness ==
    /\ pc = "Done"
    /\ params.source \in {"S30", "L30"}
    /\ WithGeometry
    /\ all_dates # <<>>
    /\ output_filenames = <<>>
    /\ fs_dirs = {}
    /\ \A key \in DOMAIN env : env[key] \notin UnitFaults

(***************************************************************************)
(* C7: in mode S30 (or L30) without geometry, when every extractor call    *)
(* succeeds, the returned list holds exactly one path                      *)
(* {band}/{sensor}_{band}_{tile}_{YYYYMMDD}.tif for every (date, band,     *)
(* tile) whose date is in the tile's calendar for that sensor, and no      *)
(* other path.                                                             *)
(***************************************************************************)
AllExtractionsSucceed ==
    \A key \in DOMAIN env : key[1] = "band" => env[key] = "ok"

SensorTriples(s) ==
    {x \in Days \X (1..Len(bands)) \X Elems(tiles) : Avail(x[3], x[1], s)}

C7_SingleSensorPaths ==
    (/\ pc = "Done"
     /\ params.source \in {"S30", "L30"}
     /\ ~WithGeometry
     /\ AllExtractionsSucceed)
    => /\ Returned = {ExpectedTilePath(params.source, bands[x[2]], x[3], x[1]) :
                         x \in SensorTriples(params.source)}
       /\ Len(output_filenames) = Cardinality(SensorTriples(params.source))

C7_Witness ==
    /\ pc = "Done"
    /\ params.source = "S30"
    /\ ~WithGeometry
    /\ AllExtractionsSucceed
    /\ Len(output_filenames) = 2
    /\ \E t \in Elems(tiles), day \in Days : Avail(t, day, "L30") /\ ~Avail(t, day, "S30")


(***************************************************************************)
(* C8: in mode HLS with a geometry, for each (date, band) at most one      *)
(* file is written and returned, the mosaic {band}/HLS_{band}_{date}.tif,  *)
(* and no per-tile file is ever written.  As stated, exactly one is        *)
(* written whenever an image was collected and composition succeeds.       *)
(***************************************************************************)
HLSCollected(day, band) ==
    \E t \in Elems(tiles) : EnvIs(<<"hls_tile", "HLS", t, DayStr(day), band>>, "ok")

HLSComposed(day, band) ==
    \E o \in {"ok", "write_err"} : EnvIs(<<"mosaic", "HLS", "-", DayStr(day), band>>, o)

HLSMosaicWritten(day, band) ==
    EnvIs(<<"mosaic", "HLS", "-", DayStr(day), band>>, "ok")

HLSMosaicPaths ==
    {ExpectedMosaicPath("HLS", bands[i], day) : i \in 1..Len(bands), day \in Days}

HLSTilePaths ==
    {ExpectedTilePath("HLS", bands[i], t, day) : i \in 1..Len(bands), day \in Days, t \in Tiles}

HLSAtMostOneMosaic ==
    /\ Returned \subseteq HLSMosaicPaths
    /\ Cardinality(Returned) = Len(output_filenames)
    /\ FilesOnDisk \subseteq {OnDisk(path) : path \in HLSMosaicPaths}
    /\ \A path \in HLSTilePaths : path \notin Returned /\ OnDisk(path) \notin FilesOnDisk

C8_MosaicWheneverComposed ==
    (params.source = "HLS" /\ WithGeometry /\ pc \in {"Dispatch", "Done"}) =>
      /\ HLSAtMostOneMosaic
      /\ pc = "Done" =>
           \A day \in Days, i \in 1..Len(bands) :
             (HLSCollected(day, bands[i]) /\ HLSComposed(day, bands[i]))
             => /\ ExpectedMosaicPath("HLS", bands[i], day) \in Returned
                /\ OnDisk(ExpectedMosaicPath("HLS", bands[i], day)) \in FilesOnDisk

(***************************************************************************)
(* C8 (amended): in mode HLS with a geometry, for each (date, band) at     *)
(* most one file is written and returned, the mosaic, and exactly one when *)
(* at least one tile's image was collected and grid construction,          *)
(* composition and the raster write all succeed; no per-tile file is ever  *)
(* written.                                                                *)
(***************************************************************************)
C8_MosaicWheneverWritten ==
    (params.source = "HLS" /\ WithGeometry /\ pc \in {"Dispatch", "Done"}) =>
      /\ HLSAtMostOneMosaic
      /\ pc = "Done" =>
           \A day \in Days, i \in 1..Len(bands) :
             (HLSCollected(day, bands[i]) /\ HLSMosaicWritten(day, bands[i]))
             <=> /\ ExpectedMosaicPath("HLS", bands[i], day) \in Returned
                 /\ OnDisk(ExpectedMosaicPath("HLS", bands[i], day)) \in FilesOnDisk

C8_Witness ==
    /\ params.source = "HLS"
    /\ WithGeometry
    /\ pc = "Done"
    /\ \E day \in Days, i \in 1..Len(bands) :
         /\ \A t \in Tiles : EnvIs(<<"hls_tile", "HLS", t, DayStr(day), bands[i]>>, "ok")
         /\ HLSMosaicWritten(day, bands[i])
         /\ output_filenames = <<ExpectedMosaicPath("HLS", bands[i], day)>>

(***************************************************************************)
(* C9: a second invocation with the same parameters against the same       *)
(* catalog and the same collaborator outcomes, which finds the directories *)
(* and files of the first, does not fail, returns the same paths and       *)
(* writes the same files.                                                  *)
(***************************************************************************)
C9_Idempotent ==
    (run >= 2 /\ prev.status = "Done") =>
      /\ pc # "Raised"
      /\ pc = "Done" =>
           /\ output_filenames = prev.output
           /\ written = prev.written
           /\ FilesOnDisk = Elems(prev.written)

C9_Witness ==
    /\ run = 2
    /\ pc = "Done"
    /\ prev.status = "Done"
    /\ Len(prev.output) = 2
    /\ output_filenames = prev.output

(***************************************************************************)
(* C10: the date universe is the ascending, duplicate-free union of the    *)
(* dates of every tile's S30 and L30 calendar, and it is additive over     *)
(* adjacent ranges: indexing [a,b] and [b+1,c] gives together the dates of *)
(* indexing [a,c].                                                         *)
(***************************************************************************)
CalendarDates ==
    UNION {Elems(tile_sensor_dates[t]["S30"]) \cup Elems(tile_sensor_dates[t]["L30"]) :
             t \in DOMAIN tile_sensor_dates}

Ascending(ds) == \A j \in 1..(Len(ds) - 1) : StrLess(ds[j], ds[j + 1])

Universe(a, c) == Elems(date_universe(tiles, catalog, DayDate(a), DayDate(c)))

C10_DateUniverse ==
    pc \in {"Dispatch", "Done"} =>
      /\ Ascending(all_dates)
      /\ Elems(all_dates) = CalendarDates
      /\ Elems(all_dates) = {DayStr(day) : day \in {x \in Days : \E t \in Elems(tiles) : AvailAny(t, x)}}
      /\ \A a \in Days, b \in Days, c \in Days :
           (a <= b /\ b < c) =>
             /\ Universe(a, b) \cup Universe(b + 1, c) = Universe(a, c)
             /\ Universe(a, b) \cap Universe(b + 1, c) = {}
      /\ Elems(all_dates) = Universe(start_date_UTC.day, end_date_UTC.day)

C10_Witness ==
    /\ pc = "Dispatch"
    /\ Len(all_dates) = 2
    /\ \E t \in Elems(tiles) : tile_sensor_dates[t]["S30"] # <<>>
    /\ \E t \in Elems(tiles) : tile_sensor_dates[t]["L30"] # <<>>

(***************************************************************************)
(* C11: a tile whose listing holds no granule in the date range gets the   *)
(* calendar {S30: [], L30: []}, the empty listing raises nothing and the   *)
(* remaining tiles are indexed; when every tile is such a tile the date    *)
(* universe is empty, no granule is resolved, no product fetched, no       *)
(* directory made, no file written, and the returned list is empty.        *)
(***************************************************************************)
EmptyInRange(t) == \A day \in Days, s \in Sensors : ~Avail(t, day, s)

EmptyCalendar == [S30 |-> <<>>, L30 |-> <<>>]

IndexingOps == {"listing", "sentinel_tiles.tiles", "HLS2Connection"}

C11_EmptyListing ==
    /\ \A i \in 1..Len(tiles) :
         (i < ti /\ EmptyInRange(tiles[i]))
         => /\ tiles[i] \in DOMAIN tile_sensor_dates
            /\ tile_sensor_dates[tiles[i]] = EmptyCalendar
    /\ (pc = "Raised" /\ tiles # <<>>) =>
         \/ \E t \in Elems(tiles) : EnvIs(ListingKey(t), "raise")
         \/ \E t \in Elems(tiles) : ~EmptyInRange(t)
    /\ pc \in {"Dispatch", "Done"} =>
         \A t \in Elems(tiles) :
           /\ t \in DOMAIN tile_sensor_dates
           /\ \E j \in 1..Len(log) : log[j].op = "listing" /\ log[j].tile = t
    /\ (pc \in {"Dispatch", "Done"} /\ \A t \in Elems(tiles) : EmptyInRange(t)) =>
         /\ all_dates = <<>>
         /\ queue = <<>>
         /\ \A j \in 1..Len(log) : log[j].op \in IndexingOps
         /\ fs_dirs = {}
         /\ fs_files = {}
         /\ written = <<>>
         /\ output_filenames = <<>>

C11_Witness ==
    /\ pc = "Done"
    /\ Len(tiles) = 2
    /\ catalog # {}
    /\ \A t \in Elems(tiles) : EmptyInRange(t) /\ tile_sensor_dates[t] = EmptyCalendar
    /\ output_filenames = <<>>

(***************************************************************************)
(* C12: in mode both, within one (date, band) every S30 unit is processed  *)
(* before any L30 unit, with and without geometry, and in the returned     *)
(* list every S30 path of a (date, band) precedes every L30 path of it.    *)
(***************************************************************************)
SameDateBand(u, v) == u.d = v.d /\ u.band = v.band

PathsOf(s, band, day) ==
    {ExpectedTilePath(s, band, t, day) : t \in Tiles} \cup {ExpectedMosaicPath(s, band, day)}

DateBands == Days \X (1..Len(bands))

C12_AllS30BeforeAnyL30 ==
    (params.source = "both" /\ pc \in {"Dispatch", "Done"}) =>
      /\ \A i \in 1..Len(queue), j \in 1..Len(queue) :
           (i < j /\ SameDateBand(queue[i], queue[j]))
           => ~(queue[i].sensor = "L30" /\ queue[j].sensor = "S30")
      /\ \A i \in 1..Len(output_filenames), j \in 1..Len(output_filenames), x \in DateBands :
           (i < j /\ output_filenames[i] \in PathsOf("L30", bands[x[2]], x[1]))
           => output_filenames[j] \notin PathsOf("S30", bands[x[2]], x[1])

(***************************************************************************)
(* C12 (amended): in mode both, within one (date, band): with a geometry   *)
(* the S30 mosaic unit is processed before the L30 mosaic unit; without    *)
(* geometry the tiles are processed in tile-list order and, for each tile, *)
(* its S30 unit before its L30 unit.  The returned list follows the same   *)
(* order.                                                                  *)
(***************************************************************************)
TilePos(t) == CHOOSE i \in 1..Len(tiles) : tiles[i] = t

SensorPos(s) == IF s = "S30" THEN 1 ELSE 2

TileMajor(t1, s1, t2, s2) ==
    \/ TilePos(t1) < TilePos(t2)
    \/ t1 = t2 /\ SensorPos(s1) < SensorPos(s2)

C12_TileThenSensorOrder ==
    (params.source = "both" /\ pc \in {"Dispatch", "Done"}) =>
      /\ \A i \in 1..Len(queue), j \in 1..Len(queue) :
           (i < j /\ SameDateBand(queue[i], queue[j]))
           => IF WithGeometry
              THEN queue[i].sensor = "S30" /\ queue[j].sensor = "L30"
              ELSE TileMajor(queue[i].tile, queue[i].sensor, queue[j].tile, queue[j].sensor)
      /\ \A i \in 1..Len(output_filenames), j \in 1..Len(output_filenames), x \in DateBands :
           LET band == bands[x[2]]
               day == x[1]
           IN  IF WithGeometry
               THEN (i < j /\ output_filenames[i] \in PathsOf("L30", band, day))
                    => output_filenames[j] \notin PathsOf("S30", band, day)
               ELSE \A t1 \in Elems(tiles), t2 \in Elems(tiles), s1 \in Sensors, s2 \in Sensors :
                      (/\ i < j
                       /\ output_filenames[i] = ExpectedTilePath(s1, band, t1, day)
                       /\ output_filenames[j] = ExpectedTilePath(s2, band, t2, day))
                      => TileMajor(t1, s1, t2, s2)

C12_Witness ==
    /\ params.source = "both"
    /\ ~WithGeometry
    /\ pc = "Done"
    /\ Len(tiles) = 2
    /\ \E day \in Days, i \in 1..Len(bands) :
         output_filenames = <<ExpectedTilePath("L30", bands[i], tiles[1], day),
                              ExpectedTilePath("S30", bands[i], tiles[2], day)>>

(***************************************************************************)
(* Indexing in the collaborator log: how often a tile's listing was        *)
(* queried, and what a step after indexing leaves alone.                   *)
(***************************************************************************)
ListingCount(t) ==
    Cardinality({j \in 1..Len(log) : log[j].op = "listing" /\ log[j].tile = t})

IndexedOnceAndFirst ==
    /\ \A t \in Tiles : ListingCount(t) <= (IF t \in Elems(tiles) THEN 1 ELSE 0)
    /\ pc \in {"Dispatch", "Done"} => \A t \in Elems(tiles) : ListingCount(t) = 1
    /\ \A i \in 1..Len(log), j \in 1..Len(log) :
         (i < j /\ log[j].op = "listing") => log[i].op \in IndexingOps
    /\ pc \in {"Validate", "Index"} =>
         /\ \A j \in 1..Len(log) : log[j].op \in IndexingOps
         /\ written = <<>>
         /\ fs_files = {}

CalendarReadOnly ==
    pc \in {"Dispatch", "Done"} =>
      /\ tile_sensor_dates' = tile_sensor_dates
      /\ all_dates' = all_dates

(***************************************************************************)
(* C13: the listing is queried at most once per tile and, once indexing    *)
(* is over, exactly once for every tile of the tile list; every listing    *)
(* query precedes the first granule resolution, product fetch, directory   *)
(* creation and file write; and no step after indexing changes the         *)
(* availability calendar or the date universe.                             *)
(***************************************************************************)
C13_IndexOnceAndFirst == []IndexedOnceAndFirst /\ [][CalendarReadOnly]_vars

C13_Witness ==
    /\ pc = "Done"
    /\ Len(tiles) = 2
    /\ \A t \in Elems(tiles) : ListingCount(t) = 1
    /\ \E j \in 1..Len(log) : log[j].op \in {"sentinel", "landsat"}
    /\ written # <<>>

(***************************************************************************)
(* The (date, band) a returned path belongs to, and the order of the       *)
(* nested date and band loops.                                             *)
(***************************************************************************)
AnyPathsOf(band, day) == UNION {PathsOf(s, band, day) : s \in Sensors \cup {"HLS"}}

BandPos(band) == CHOOSE i \in 1..Len(bands) : bands[i] = band

DateBandLeq(day1, band1, day2, band2) ==
    \/ day1 < day2
    \/ day1 = day2 /\ BandPos(band1) <= BandPos(band2)

UnitDay(u) == CHOOSE day \in Days : DayStr(day) = u.d

\* the band directory of a returned path, and the day its file name carries
PathBand(path) == path[Len(path) - 1]

PathDay(path) == CHOOSE day \in Days : path \in AnyPathsOf(PathBand(path), day)

(***************************************************************************)
(* C14: units are processed by date ascending, then by band in the order   *)
(* of the band sequence (the caller's, or BANDS), and the returned list    *)
(* follows: of any two returned paths the earlier one has an earlier date, *)
(* or the same date and a band that is not later in the band sequence.     *)
(***************************************************************************)
C14_DateThenBandOrder ==
    pc \in {"Dispatch", "Done"} =>
      /\ \A i \in 1..Len(queue), j \in 1..Len(queue) :
           i < j => DateBandLeq(UnitDay(queue[i]), queue[i].band,
                                UnitDay(queue[j]), queue[j].band)
      /\ \A i \in 1..Len(output_filenames) :
           /\ PathBand(output_filenames[i]) \in Elems(bands)
           /\ \E day \in Days :
                output_filenames[i] \in AnyPathsOf(PathBand(output_filenames[i]), day)
      /\ LET day == [i \in 1..Len(output_filenames) |-> PathDay(output_filenames[i])]
             band == [i \in 1..Len(output_filenames) |-> PathBand(output_filenames[i])]
         IN  /\ \A i \in 1..Len(output_filenames), j \in 1..Len(output_filenames) :
                  i < j => DateBandLeq(day[i], band[i], day[j], band[j])
             /\ \A i \in 1..Len(output_filenames), k \in 1..Len(queue) :
                  DateBandLeq(day[i], band[i], UnitDay(queue[k]), queue[k].band)

C14_Witness ==
    /\ pc = "Done"
    /\ bands = <<"rededge1", "red">>
    /\ Len(all_dates) = 2
    /\ Len(output_filenames) = 4

(***************************************************************************)
(* The tiles whose image a call of process_sensor_mosaic must hand to the  *)
(* compositing primitive, and the grid it must hand with them.             *)
(***************************************************************************)
CollectedTiles(sensor, d, band) ==
    {t \in Elems(tiles) :
        /\ t \in DOMAIN tile_sensor_dates
        /\ d \in Elems(tile_sensor_dates[t][sensor])
        /\ EnvIs(<<"extract", sensor, t, d, band>>, "ok")}

InTileOrder(imgs) ==
    \A i \in 1..Len(imgs), j \in 1..Len(imgs) :
        i < j => TilePos(imgs[i].tile) < TilePos(imgs[j].tile)

GridFromFirst(imgs) ==
    [kind |-> "RasterGrid", crs |-> TileCRS(imgs[1].tile), cell_size |-> 30]

(***************************************************************************)
(* C15: every composition made by process_sensor_mosaic receives exactly   *)
(* the images of the tiles that have the date in their calendar for the    *)
(* sensor and whose extraction succeeded, in tile-list order; with a       *)
(* bounding box the grid is built, in the CRS and at the cell size of the  *)
(* first of these images, from the bounding box reprojected to that CRS;   *)
(* with a raster geometry the geometry itself is handed to composition.    *)
(***************************************************************************)
C15_MosaicInputs ==
    (params.source \in {"S30", "L30", "both"} /\ WithGeometry) =>
      \A j \in 1..Len(log) :
        /\ log[j].op = "mosaic" =>
             LET imgs == log[j].images
                 sensor == imgs[1].sensor
                 d == imgs[1].d
                 band == imgs[1].band
             IN  /\ imgs # <<>>
                 /\ sensor \in ModeSensors
                 /\ {imgs[i].tile : i \in 1..Len(imgs)} = CollectedTiles(sensor, d, band)
                 /\ InTileOrder(imgs)
                 /\ \A i \in 1..Len(imgs) : imgs[i] = Image(sensor, imgs[i].tile, d, band)
                 /\ IF params.geometry.kind = "BBox"
                    THEN /\ log[j].geometry = GridFromFirst(imgs)
                         /\ j > 2
                         /\ log[j - 2] = [op |-> "to_crs", crs |-> TileCRS(imgs[1].tile)]
                         /\ log[j - 1] = [op |-> "RasterGrid.from_bbox",
                                          crs |-> TileCRS(imgs[1].tile), cell_size |-> 30]
                    ELSE log[j].geometry = params.geometry
        /\ params.geometry.kind # "BBox" => log[j].op \notin {"to_crs", "RasterGrid.from_bbox"}

C15_Witness ==
    /\ params.source \in {"S30", "L30", "both"}
    /\ params.geometry = ABBox
    /\ pc = "Done"
    /\ tiles = <<"T2", "T1">>
    /\ \E j \in 1..Len(log) :
         /\ log[j].op = "mosaic"
         /\ Len(log[j].images) = 2
         /\ log[j].images[1].tile = "T2"
         /\ log[j].geometry.crs = TileCRS("T2")

====
